---- MODULE Spec2Model ----
(***************************************************************************)
(* The SeatingEditor component (src/unnamed/part_000) as a state machine.  *)
(*                                                                         *)
(* JavaScript objects are shared by reference: `{ ...layout }` copies the  *)
(* layout object only, so the copy holds the SAME sections array and the   *)
(* SAME section objects.  The model therefore keeps a heap: `objs` holds   *)
(* the section objects, `arrs` the sections arrays, and a layout is a      *)
(* record that points at an array.  A seats array is reachable through     *)
(* exactly one section object, so it is kept by value inside the object.   *)
(*                                                                         *)
(* Handlers are React closures: they read the `layout` of the last render  *)
(* (`view`), not the state cell (`layout`).  Render brings them together.  *)
(*                                                                         *)
(* Numbers are the integers on which the handlers' float arithmetic is     *)
(* exact; an input for which a division would not be exact is not drawn.   *)
(***************************************************************************)
EXTENDS Integers, Sequences, FiniteSets, TLC

VARIABLES
    objs,              \* heap: section objects, address = index
    arrs,              \* heap: sections arrays (sequences of addresses)
    layout,            \* useState layout: the current layout object
    view,              \* the layout captured by the handlers of the last render
    now,               \* the wall clock read by Date.now()
    tool,              \* useState tool
    selectedId,        \* useState selectedId
    editingSection,    \* useState editingSection
    contextMenu,       \* useState contextMenu (its sectionId) or NULL
    seatContextMenu,   \* useState seatContextMenu ([seatId, sectionId]) or NoSeatRef
    seatGridDialog,    \* useState seatGridDialog (its sectionId) or NULL
    seatEditDialog,    \* useState seatEditDialog (the seat's [seatId, sectionId]) or NoSeatRef
    colorPickerDialog, \* useState colorPickerDialog: what onConfirm closed over, or NoPicker
    emitted,           \* the layout last passed to onLayoutChange, or NoLayout
    notes,             \* number of onLayoutChange calls made by the last handler
    threw,             \* the last handler raised an exception
    clicked,           \* a click is on its way to the document's listener
    scale,             \* useState scale, the zoom of the Stage, in thousandths
    exported,          \* the jsonData of the last exportToJSON, or NoExport
    fuel               \* handler invocations left in this run

vars == << objs, arrs, layout, view, now, tool, selectedId, editingSection,
           contextMenu, seatContextMenu, seatGridDialog, seatEditDialog,
           colorPickerDialog, emitted, notes, threw, clicked, scale, exported,
           fuel >>

ui == << tool, selectedId, editingSection, contextMenu, seatContextMenu,
         seatGridDialog, seatEditDialog, colorPickerDialog >>

NULL == "null"
\* the null of a state cell that otherwise holds a record
NoLayout == [ sections |-> 0, scale |-> 0 ]
NoSeatRef == [ seatId |-> NULL, sectionId |-> NULL ]
NoPicker == [ layout |-> NoLayout, sectionId |-> NULL ]
NoExport == [ sections |-> << >>, scale |-> 0, exportDate |-> 0, totalSeats |-> -1 ]

-----------------------------------------------------------------------------
(* Bounds of the exploration *)

\* handler invocations explored from the initial state under Spec
MaxSteps == 5
\* the clock may advance this many milliseconds in a run
MaxTicks == 1
\* a section never holds more seats than this through add-seat clicks
MaxSeats == 2
\* a layout never holds more sections than this
MaxSections == 4

\* the value of Date.now() when the editor is mounted (any value above 2)
Epoch == 1000

-----------------------------------------------------------------------------
(* Program constants *)

minPadding == 15
defaultSeatSize == 8
minExtent == 50
duplicateOffset == 20

-----------------------------------------------------------------------------
(* Inputs *)

\* Math.random().toString(36).substring(2, 5).toUpperCase()
RandomChars == {"K7Q", "X2M"}
\* String(Math.random()) in a duplicated seat's id
RandomReals == {"0.25", "0.5", "0.75"}
\* Math.random() in a new seat's position, in halves: 1 stands for 0.5
RandomHalves == {1}
\* e.target.x(), e.target.y() at the end of a section drag
DragPoints == { <<300, 260>> }
\* e.target.x(), e.target.y() at the end of a seat drag
SeatDragPoints == { <<100, 250>> }
\* node.x(), node.y(), node.width()*scaleX, node.height()*scaleY, node.rotation()
TransformInputs == { <<200, 200, 40, 60, 90>> }
\* pointer position of a click on a section's Rect
ClickPoints == { <<100, 250>> }
\* rows, cols, seatSize of the seat-grid dialog
GridInputs == { <<1, 1, 8>>, <<3, 1, 20>>, <<2, 2, 18>> }
\* text typed into the section-name editor
NameInputs == { "Section B" }
\* colours of the colour picker
ColorInputs == { "#45b7d1" }
\* text typed into the seat-id editor
SeatIdInputs == { "VIP" }
\* hsl(...) colour of a new section: Math.random() * 360
RandomHues == { "hsl(180, 70%, 60%)" }
\* the sections of a layout the host passes to the ref's setLayout
HostSections ==
    { << [ id |-> "section-1", name |-> "Section A", color |-> "#ff6b6b",
           x |-> 50, y |-> 200, width |-> 150, height |-> 120, rotation |-> 0,
           seats |-> << >>, type |-> "section" ] >> }

-----------------------------------------------------------------------------
(* Helpers *)

Min(S) == CHOOSE m \in S : \A n \in S : m <= n
Max2(a, b) == IF a >= b THEN a ELSE b
Range(s) == { s[i] : i \in 1..Len(s) }
Exact(a, b) == a % b = 0

\* s.findIndex(x => x.id === id), 1-based; 0 stands for JavaScript's -1
findIndex(s, id) ==
    LET hits == { i \in 1..Len(s) : s[i].id = id }
    IN  IF hits = {} THEN 0 ELSE Min(hits)

\* s.filter(x => x.id !== id)
filter(s, id) == SelectSeq(s, LAMBDA x : x.id # id)

\* layout.sections as a sequence of section objects, read through heap h/a
SectionsIn(h, a, lay) == [ i \in 1..Len(a[lay.sections]) |-> h[a[lay.sections][i]] ]
Sections(lay) == SectionsIn(objs, arrs, lay)

\* index in layout.sections of the first section with this id (findIndex)
sectionIndex(lay, id) == findIndex(Sections(lay), id)
\* address of that section object
AddrAt(lay, i) == arrs[lay.sections][i]

\* the whole value reachable from a layout object, through heap h/a
DeepIn(h, a, lay) == [ sections |-> SectionsIn(h, a, lay), scale |-> lay.scale ]
Deep(lay) == DeepIn(objs, arrs, lay)

\* the section objects of a layout, by address
Shown(lay) == Range(arrs[lay.sections])

\* `${a}-${b}` and the ids built with it
sectionId(t) == "section-" \o ToString(t)
labelId(t) == "label-" \o ToString(t)

-----------------------------------------------------------------------------
(* Initial state: useState defaults, lines 622-676 *)

defaultSections ==
    << [ id |-> "section-1", name |-> "Section A", color |-> "#ff6b6b",
         x |-> 50, y |-> 200, width |-> 150, height |-> 120, rotation |-> 0,
         seats |-> << >>, type |-> "section" ],
       [ id |-> "section-2", name |-> "Section B", color |-> "#4ecdc4",
         x |-> 250, y |-> 200, width |-> 150, height |-> 120, rotation |-> 0,
         seats |-> << >>, type |-> "section" ] >>

InitWith(n) ==
    /\ objs = defaultSections
    /\ arrs = << <<1, 2>> >>
    /\ layout = [ sections |-> 1, scale |-> 1 ]
    /\ view = [ sections |-> 1, scale |-> 1 ]
    /\ now = Epoch
    /\ tool = "select"
    /\ selectedId = NULL
    /\ editingSection = NULL
    /\ contextMenu = NULL
    /\ seatContextMenu = NoSeatRef
    /\ seatGridDialog = NULL
    /\ seatEditDialog = NoSeatRef
    /\ colorPickerDialog = NoPicker
    /\ emitted = NoLayout
    /\ notes = 0
    /\ threw = FALSE
    /\ clicked = FALSE
    /\ scale = 1000
    /\ exported = NoExport
    /\ fuel = n

Init == InitWith(MaxSteps)

-----------------------------------------------------------------------------
(* What every handler does around its body *)

\* a handler runs on a new event: one invocation is used up
Invoke == fuel > 0 /\ ~clicked /\ fuel' = fuel - 1

\* The event is a native click that no handler stops: it goes on to the
\* document's listener of line 758.  With both menus closed that listener
\* sets null to null, which is no step.
Bubbles == clicked' = (contextMenu' # NULL \/ seatContextMenu' # NoSeatRef)
\* the event is no click, or stopPropagation() kept it from the document
Stops == clicked' = FALSE

\* a handler bound in JSX runs only on a rendered tree
Rendered == view = layout

\* A faulty variant of Commit, kept to show what the notification properties
\* detect: the observer is handed the layout held before the command.
CommitPrevious(newLayout) ==
    /\ layout' = newLayout
    /\ emitted' = layout
    /\ notes' = 1

\* setLayout(newLayout); onLayoutChange?.(newLayout);
Commit(newLayout) ==
    /\ layout' = newLayout
    /\ emitted' = newLayout
    /\ notes' = 1

\* the handler returns without setLayout / onLayoutChange
Silent ==
    /\ layout' = layout
    /\ emitted' = emitted
    /\ notes' = 0

-----------------------------------------------------------------------------
(* React re-render: the handlers close over the new state *)

Render ==
    /\ view # layout
    /\ ~clicked
    /\ view' = layout
    /\ UNCHANGED << objs, arrs, layout, now, scale, exported, ui, emitted, notes,
                    threw, clicked, fuel >>

(* The clock advances between two handlers *)
Tick ==
    /\ now < Epoch + MaxTicks
    /\ now' = now + 1
    /\ UNCHANGED << objs, arrs, layout, view, scale, exported, ui, emitted, notes,
                    threw, clicked, fuel >>

-----------------------------------------------------------------------------
(* addSection, lines 973-990 *)

newSection(t, hue, n) ==
    [ id |-> sectionId(t), name |-> "Section " \o ToString(n + 1), color |-> hue,
      x |-> 100 + n * 200, y |-> 300, width |-> 150, height |-> 120,
      rotation |-> 0, seats |-> << >>, type |-> "section" ]

\* { ...layout, sections: [...layout.sections, s] } : a new array, the same objects
Appended(s) ==
    /\ Len(arrs[view.sections]) < MaxSections
    /\ objs' = Append(objs, s)
    /\ arrs' = Append(arrs, Append(arrs[view.sections], Len(objs) + 1))
    /\ Commit([ view EXCEPT !.sections = Len(arrs) + 1 ])

\* the ref method (line 1084), which the host may call before the editor has
\* rendered again, or the toolbar button (line 1146)
addSection ==
    /\ Invoke
    /\ \E hue \in RandomHues :
         Appended(newSection(now, hue, Len(arrs[view.sections])))
    /\ threw' = FALSE
    /\ UNCHANGED << view, scale, exported, now, ui >>
    /\ Stops \/ (Rendered /\ Bubbles)

(* addLabelSection, lines 992-1009 *)

newLabelSection(t) ==
    [ id |-> labelId(t), name |-> "Stage", color |-> "#2c3e50",
      x |-> 100, y |-> 50, width |-> 200, height |-> 100,
      rotation |-> 0, seats |-> << >>, type |-> "label" ]

\* the ref method (line 1085) or the toolbar button (line 1159)
addLabelSection ==
    /\ Invoke
    /\ Appended(newLabelSection(now))
    /\ threw' = FALSE
    /\ UNCHANGED << view, scale, exported, now, ui >>
    /\ Stops \/ (Rendered /\ Bubbles)

(* setTool, lines 654, 1086, 1120, 1133 *)
setTool ==
    /\ Invoke
    /\ \E t \in { "select", "add-seat", "add-section" } : t # tool /\ tool' = t
    /\ Silent
    /\ threw' = FALSE
    /\ UNCHANGED << objs, arrs, view, scale, exported, now, selectedId, editingSection,
                    contextMenu, seatContextMenu, seatGridDialog, seatEditDialog,
                    colorPickerDialog >>
    /\ Stops \/ (Rendered /\ Bubbles)

(* The ref's setLayout, lines 1091-1094: the host installs a layout of its own *)
Ref_setLayout ==
    /\ Invoke
    /\ \E sections \in HostSections :
         /\ objs' = objs \o sections
         /\ arrs' = Append(arrs, [ i \in 1..Len(sections) |-> Len(objs) + i ])
         /\ Commit([ sections |-> Len(arrs) + 1, scale |-> 1 ])
    /\ threw' = FALSE
    /\ Stops
    /\ UNCHANGED << view, scale, exported, now, ui >>

-----------------------------------------------------------------------------
(* Events of a section's Rect, lines 1239-1259: the node exists for the
   sections of the rendered layout, and carries the id of its section. *)

\* A faulty variant of movedSection, kept to show what the move properties
\* detect: the centre of the dragged Rect is stored as the top-left corner.
movedSectionTopLeft(s, ex, ey) ==
    [ s EXCEPT !.x = ex, !.y = ey ]

\* the section object after lines 793-794
movedSection(s, ex, ey) ==
    [ s EXCEPT !.x = ex - s.width \div 2, !.y = ey - s.height \div 2 ]

(* handleDragEnd(e, 'section', id), lines 787-799: moveSection;
   ex, ey are e.target.x(), e.target.y() *)
handleDragEnd(id, ex, ey) ==
    /\ LET i == sectionIndex(view, id)
       IN  IF i # 0
           THEN LET a == AddrAt(view, i)
                IN  /\ Exact(objs[a].width, 2) /\ Exact(objs[a].height, 2)
                    /\ objs' = [ objs EXCEPT ![a] = movedSection(@, ex, ey) ]
           ELSE objs' = objs
    /\ Commit(view)
    /\ threw' = FALSE
    /\ UNCHANGED << arrs, view, scale, exported, now, ui >>

\* draggable={tool === 'select' && !isSpacePressed}, line 1256
Rect_onDragEnd ==
    /\ Invoke
    /\ Rendered
    /\ tool = "select"
    /\ \E a \in Shown(view), p \in DragPoints : handleDragEnd(objs[a].id, p[1], p[2])
    /\ Bubbles

\* the seat of lines 807-815; rx, ry are the two Math.random() in halves
newSeat(section, id, chars, rx, ry) ==
    [ id |-> section.name \o "-" \o chars,
      x |-> (rx * (section.width - 20)) \div 2 + 10,
      y |-> (ry * (section.height - 20)) \div 2 + 10,
      row |-> "A",
      number |-> Len(section.seats) + 1,
      sectionId |-> id,
      seatSize |-> defaultSeatSize ]

\* layout.sections.find(s => s.id === id) exists and is a regular section, line 804
isRegularSection(lay, id) ==
    LET i == sectionIndex(lay, id)
    IN  i # 0 /\ objs[AddrAt(lay, IF i = 0 THEN 1 ELSE i)].type = "section"

\* A faulty variant of handleSectionClick, kept to show what the tool
\* properties detect: every tool but 'select' adds a seat.
handleSectionClickAnyTool(id) ==
    /\ IF tool # "select"
       THEN /\ IF isRegularSection(view, id)
               THEN LET a == AddrAt(view, sectionIndex(view, id))
                    IN  /\ Len(objs[a].seats) < MaxSeats
                        /\ \E chars \in RandomChars, rx \in RandomHalves, ry \in RandomHalves :
                             /\ Exact(rx * (objs[a].width - 20), 2)
                             /\ Exact(ry * (objs[a].height - 20), 2)
                             /\ objs' = [ objs EXCEPT ![a].seats =
                                            Append(@, newSeat(objs[a], id, chars, rx, ry)) ]
                        /\ Commit(view)
               ELSE /\ objs' = objs
                    /\ Silent
            /\ selectedId' = selectedId
       ELSE /\ selectedId' = id
            /\ objs' = objs
            /\ Silent
    /\ threw' = FALSE
    /\ UNCHANGED << arrs, view, scale, exported, now, tool, editingSection,
                    contextMenu, seatContextMenu, seatGridDialog, seatEditDialog,
                    colorPickerDialog >>

(* handleSectionClick(sectionId), lines 801-827: addSeat, or select *)
handleSectionClick(id) ==
    /\ IF tool = "add-seat"
       THEN /\ IF isRegularSection(view, id)
               THEN LET a == AddrAt(view, sectionIndex(view, id))
                    IN  /\ Len(objs[a].seats) < MaxSeats
                        /\ \E chars \in RandomChars, rx \in RandomHalves, ry \in RandomHalves :
                             /\ Exact(rx * (objs[a].width - 20), 2)
                             /\ Exact(ry * (objs[a].height - 20), 2)
                             /\ objs' = [ objs EXCEPT ![a].seats =
                                            Append(@, newSeat(objs[a], id, chars, rx, ry)) ]
                        /\ Commit(view)
               ELSE /\ objs' = objs
                    /\ Silent
            /\ selectedId' = selectedId
       ELSE /\ selectedId' = id
            /\ objs' = objs
            /\ Silent
    /\ threw' = FALSE
    /\ UNCHANGED << arrs, view, scale, exported, now, tool, editingSection,
                    contextMenu, seatContextMenu, seatGridDialog, seatEditDialog,
                    colorPickerDialog >>

\* the Rect of the section at address a is clicked at the world position p:
\* onClick={() => handleSectionClick(section.id)} takes no event, lines 1253-1254
SectionClicked(a, p) ==
    /\ Invoke
    /\ Rendered
    /\ handleSectionClick(objs[a].id)
    /\ Bubbles

Rect_onClick ==
    \E a \in Shown(view), p \in ClickPoints : SectionClicked(a, p)

(* handleSectionRightClick(e, sectionId), lines 829-839 *)
handleSectionRightClick(id) ==
    /\ contextMenu' = id
    /\ Silent
    /\ threw' = FALSE
    /\ UNCHANGED << objs, arrs, view, scale, exported, now, tool, selectedId,
                    editingSection, seatContextMenu, seatGridDialog, seatEditDialog,
                    colorPickerDialog >>

Rect_onContextMenu ==
    /\ Invoke
    /\ Rendered
    /\ \E a \in Shown(view) : handleSectionRightClick(objs[a].id)
    /\ Stops

\* A faulty variant of transformedSection, kept to show what the size
\* properties detect: the extents are stored as the Transformer gives them.
transformedSectionUnclamped(s, nx, ny, w, h, rotation) ==
    [ s EXCEPT !.x = nx - w \div 2,
               !.y = ny - h \div 2,
               !.width = w,
               !.height = h,
               !.rotation = rotation ]

\* lines 957-961; w and h are node.width() * scaleX and node.height() * scaleY
transformedSection(s, nx, ny, w, h, rotation) ==
    [ s EXCEPT !.x = nx - w \div 2,
               !.y = ny - h \div 2,
               !.width = Max2(w, minExtent),
               !.height = Max2(h, minExtent),
               !.rotation = rotation ]

(* handleTransformEnd(e), lines 942-966: transformSection of the selected section *)
handleTransformEnd(nx, ny, w, h, rotation) ==
    /\ Exact(w, 2) /\ Exact(h, 2)
    /\ LET i == sectionIndex(view, selectedId)
       IN  IF i # 0
           THEN objs' = [ objs EXCEPT ![AddrAt(view, i)] =
                            transformedSection(@, nx, ny, w, h, rotation) ]
           ELSE objs' = objs
    /\ Commit(view)
    /\ threw' = FALSE
    /\ UNCHANGED << arrs, view, scale, exported, now, ui >>

\* The Transformer holds the node stage.findOne('#' + selectedId) found,
\* lines 765-776 and 1330-1338: the event needs a selected, rendered section.
Rect_onTransformEnd ==
    /\ Invoke
    /\ Rendered
    /\ selectedId # NULL
    /\ sectionIndex(view, selectedId) # 0
    /\ \E t \in TransformInputs : handleTransformEnd(t[1], t[2], t[3], t[4], t[5])
    /\ Bubbles

(* Stage onClick on the empty canvas, lines 1229-1233 *)
Stage_onClick ==
    /\ Invoke
    /\ Rendered
    /\ selectedId # NULL
    /\ selectedId' = NULL
    /\ Silent
    /\ threw' = FALSE
    /\ UNCHANGED << objs, arrs, view, scale, exported, now, tool, editingSection,
                    contextMenu, seatContextMenu, seatGridDialog, seatEditDialog,
                    colorPickerDialog >>
    /\ Bubbles

(* The section's name Text, onClick, lines 1272 and 1286 *)
Text_onClick ==
    /\ Invoke
    /\ Rendered
    /\ \E a \in Shown(view) : editingSection' = objs[a].id
    /\ editingSection' # editingSection
    /\ Silent
    /\ threw' = FALSE
    /\ UNCHANGED << objs, arrs, view, scale, exported, now, tool, selectedId,
                    contextMenu, seatContextMenu, seatGridDialog, seatEditDialog,
                    colorPickerDialog >>
    /\ Bubbles

(* handleClickOutside, lines 752-762: the listener of a click that went
   through a handler above, or of a click on nothing that handles it *)
handleClickOutside ==
    /\ \/ clicked /\ fuel' = fuel
       \/ Invoke /\ Rendered /\ (contextMenu # NULL \/ seatContextMenu # NoSeatRef)
    /\ clicked' = FALSE
    /\ contextMenu' = NULL
    /\ seatContextMenu' = NoSeatRef
    /\ Silent
    /\ threw' = FALSE
    /\ UNCHANGED << objs, arrs, view, scale, exported, now, tool, selectedId,
                    editingSection, seatGridDialog, seatEditDialog,
                    colorPickerDialog >>

-----------------------------------------------------------------------------
(* The section context menu, lines 1343-1389 *)

\* The values n successive Date.now() calls can return: the clock does not go
\* back, and may or may not advance between two calls.
ClockReads(n) ==
    { ts \in [ 1..n -> now..(Epoch + MaxTicks) ] :
        \A i \in 1..n, j \in 1..n : i <= j => ts[i] <= ts[j] }

\* The values n successive Math.random() calls of one handler return: the
\* generator does not repeat a double within so few draws.
RandomDraws(n) ==
    { rs \in [ 1..n -> RandomReals ] : \A i \in 1..n, j \in 1..n : rs[i] = rs[j] => i = j }

\* `seat-${Date.now()}-${Math.random()}`
copySeatId(t, r) == "seat-" \o ToString(t) \o "-" \o r

\* lines 844-856; ts[1] is the Date.now() of the id, ts[2k] and ts[2k+1] those
\* of the k-th seat's id and sectionId, rs[k] its Math.random()
duplicatedSection(section, ts, rs) ==
    [ section EXCEPT
        !.id = sectionId(ts[1]),
        !.name = section.name \o " (Copy)",
        !.x = section.x + duplicateOffset,
        !.y = section.y + duplicateOffset,
        !.seats = [ k \in 1..Len(section.seats) |->
                      [ section.seats[k] EXCEPT
                          !.id = copySeatId(ts[2 * k], rs[k]),
                          !.sectionId = sectionId(ts[2 * k + 1]),
                          !.seatSize = IF @ = 0 THEN defaultSeatSize ELSE @ ] ] ]

(* handleDuplicateSection(sectionId), lines 841-863: duplicateSection *)
handleDuplicateSection(id) ==
    /\ LET i == sectionIndex(view, id)
       IN  IF i # 0
           THEN LET section == objs[AddrAt(view, i)]
                    n == Len(section.seats)
                IN  \E ts \in ClockReads(2 * n + 1), rs \in RandomDraws(n) :
                      /\ Appended(duplicatedSection(section, ts, rs))
                      /\ now' = ts[2 * n + 1]
           ELSE /\ UNCHANGED << objs, arrs, now >>
                /\ Silent
    /\ contextMenu' = NULL
    /\ threw' = FALSE
    /\ UNCHANGED << view, scale, exported, tool, selectedId, editingSection,
                    seatContextMenu, seatGridDialog, seatEditDialog,
                    colorPickerDialog >>

\* ContextMenu onDuplicate, line 1348; the menu stops the click, line 171
ContextMenu_onDuplicate ==
    /\ Invoke
    /\ Rendered
    /\ contextMenu # NULL
    /\ handleDuplicateSection(contextMenu)
    /\ Stops

(* ContextMenu onEdit, lines 1349-1352 *)
ContextMenu_onEdit ==
    /\ Invoke
    /\ Rendered
    /\ Stops
    /\ contextMenu # NULL
    /\ editingSection' = contextMenu
    /\ contextMenu' = NULL
    /\ Silent
    /\ threw' = FALSE
    /\ UNCHANGED << objs, arrs, view, scale, exported, now, tool, selectedId,
                    seatContextMenu, seatGridDialog, seatEditDialog,
                    colorPickerDialog >>

\* sectionType passed to ContextMenu, line 1347
sectionType(lay, id) ==
    LET i == sectionIndex(lay, id)
    IN  IF i = 0 THEN "section" ELSE objs[AddrAt(lay, i)].type

(* ContextMenu onFillWithSeats, lines 1353-1359; the menu shows the item only
   when sectionType is 'section', lines 207-225 *)
ContextMenu_onFillWithSeats ==
    /\ Invoke
    /\ Rendered
    /\ Stops
    /\ contextMenu # NULL
    /\ sectionType(view, contextMenu) = "section"
    /\ seatGridDialog' = IF isRegularSection(view, contextMenu)
                         THEN contextMenu
                         ELSE seatGridDialog
    /\ contextMenu' = NULL
    /\ Silent
    /\ threw' = FALSE
    /\ UNCHANGED << objs, arrs, view, scale, exported, now, tool, selectedId,
                    editingSection, seatContextMenu, seatEditDialog,
                    colorPickerDialog >>

\* Array.prototype.splice(i, 1)
splice(s, i) == [ k \in 1..(Len(s) - 1) |-> IF k < i THEN s[k] ELSE s[k + 1] ]

(* ContextMenu onDelete, lines 1360-1369: deleteSection *)
ContextMenu_onDelete ==
    /\ Invoke
    /\ Rendered
    /\ Stops
    /\ contextMenu # NULL
    /\ LET i == sectionIndex(view, contextMenu)
       IN  IF i # 0
           THEN /\ arrs' = [ arrs EXCEPT ![view.sections] = splice(@, i) ]
                /\ Commit(view)
           ELSE /\ arrs' = arrs
                /\ Silent
    /\ contextMenu' = NULL
    /\ threw' = FALSE
    /\ UNCHANGED << objs, view, scale, exported, now, tool, selectedId, editingSection,
                    seatContextMenu, seatGridDialog, seatEditDialog,
                    colorPickerDialog >>

(* ContextMenu onChangeColor, lines 1370-1386: onConfirm closes over the
   layout and the contextMenu of this render *)
ContextMenu_onChangeColor ==
    /\ Invoke
    /\ Rendered
    /\ Stops
    /\ contextMenu # NULL
    /\ colorPickerDialog' = [ layout |-> view, sectionId |-> contextMenu ]
    /\ contextMenu' = NULL
    /\ Silent
    /\ threw' = FALSE
    /\ UNCHANGED << objs, arrs, view, scale, exported, now, tool, selectedId,
                    editingSection, seatContextMenu, seatGridDialog, seatEditDialog >>

(* colorPickerDialog.onConfirm(color), lines 1374-1383: recolorSection *)
onConfirmColor(color) ==
    /\ LET lay == colorPickerDialog.layout
           i == sectionIndex(lay, colorPickerDialog.sectionId)
       IN  IF i # 0
           THEN /\ objs' = [ objs EXCEPT ![AddrAt(lay, i)].color = color ]
                /\ Commit(lay)
           ELSE /\ objs' = objs
                /\ Silent
    /\ colorPickerDialog' = NoPicker
    /\ threw' = FALSE
    /\ UNCHANGED << arrs, view, scale, exported, now, tool, selectedId, editingSection,
                    contextMenu, seatContextMenu, seatGridDialog, seatEditDialog >>

\* ColorPickerDialog's Apply button, line 416
ColorPickerDialog_onConfirm ==
    /\ Invoke
    /\ Rendered
    /\ colorPickerDialog # NoPicker
    /\ \E color \in ColorInputs : onConfirmColor(color)
    /\ Bubbles

(* colorPickerDialog.onCancel, line 1384 *)
ColorPickerDialog_onCancel ==
    /\ Invoke
    /\ Rendered
    /\ colorPickerDialog # NoPicker
    /\ colorPickerDialog' = NoPicker
    /\ Silent
    /\ threw' = FALSE
    /\ UNCHANGED << objs, arrs, view, scale, exported, now, tool, selectedId,
                    editingSection, contextMenu, seatContextMenu, seatGridDialog,
                    seatEditDialog >>
    /\ Bubbles

-----------------------------------------------------------------------------
(* The seat-grid dialog, lines 1419-1424, and handleFillWithSeats, 865-907 *)

\* String.fromCharCode(65 + row)
Letters == << "A", "B", "C", "D", "E", "F", "G", "H" >>
fromCharCode65(row) == Letters[row + 1]

\* (section.width - (cols * seatSize * 2)) / totalHorizontalSpaces, and the
\* same for the height: the value before Math.max
rawSpacing(extent, n, seatSize) == (extent - n * seatSize * 2) \div (n + 1)

\* the raw value is a number the model holds exactly, or Math.max discards it
ExactSpacing(extent, n, seatSize) ==
    rawSpacing(extent, n, seatSize) < minPadding \/ Exact(extent - n * seatSize * 2, n + 1)

\* Math.max(minPadding, raw), lines 875-876
spacing(extent, n, seatSize) == Max2(minPadding, rawSpacing(extent, n, seatSize))

\* the test of line 879, on the values of lines 875-876
tooSmall(section, rows, cols, seatSize) ==
    \/ spacing(section.width, cols, seatSize) < minPadding
    \/ spacing(section.height, rows, seatSize) < minPadding

\* A faulty variant of gridSeat, kept to show what the grid properties
\* detect: columns run down and rows run across.
gridSeatTransposed(section, id, row, col, rows, cols, seatSize) ==
    LET spacingX == spacing(section.width, cols, seatSize)
        spacingY == spacing(section.height, rows, seatSize)
    IN  [ id |-> section.name \o "-" \o fromCharCode65(row) \o "-" \o ToString(col + 1),
          x |-> spacingX + row * (seatSize * 2 + spacingX),
          y |-> spacingY + col * (seatSize * 2 + spacingY),
          row |-> fromCharCode65(row),
          number |-> col + 1,
          sectionId |-> id,
          seatSize |-> seatSize ]

\* the seat of lines 886-894; row and col count from 0
gridSeat(section, id, row, col, rows, cols, seatSize) ==
    LET spacingX == spacing(section.width, cols, seatSize)
        spacingY == spacing(section.height, rows, seatSize)
    IN  [ id |-> section.name \o "-" \o fromCharCode65(row) \o "-" \o ToString(col + 1),
          x |-> spacingX + col * (seatSize * 2 + spacingX),
          y |-> spacingY + row * (seatSize * 2 + spacingY),
          row |-> fromCharCode65(row),
          number |-> col + 1,
          sectionId |-> id,
          seatSize |-> seatSize ]

\* newSeats after the loops of lines 884-897: row-major
gridSeats(section, id, rows, cols, seatSize) ==
    [ k \in 1..(rows * cols) |->
        gridSeat(section, id, (k - 1) \div cols, (k - 1) % cols, rows, cols, seatSize) ]

(* handleFillWithSeats(sectionId, rows, cols, seatSize): fillWithSeats.
   The return of line 881 leaves before setSeatGridDialog(null). *)
handleFillWithSeats(id, rows, cols, seatSize) ==
    /\ LET i == sectionIndex(view, id)
       IN  IF i # 0
           THEN LET a == AddrAt(view, i)
                IN  /\ ExactSpacing(objs[a].width, cols, seatSize)
                    /\ ExactSpacing(objs[a].height, rows, seatSize)
                    /\ IF tooSmall(objs[a], rows, cols, seatSize)
                       THEN /\ objs' = objs
                            /\ Silent
                            /\ seatGridDialog' = seatGridDialog
                       ELSE /\ objs' = [ objs EXCEPT ![a].seats =
                                           gridSeats(objs[a], id, rows, cols, seatSize) ]
                            /\ Commit(view)
                            /\ seatGridDialog' = NULL
           ELSE /\ objs' = objs
                /\ Silent
                /\ seatGridDialog' = NULL
    /\ threw' = FALSE
    /\ UNCHANGED << arrs, view, scale, exported, now, tool, selectedId, editingSection,
                    contextMenu, seatContextMenu, seatEditDialog, colorPickerDialog >>

\* SeatGridDialog onConfirm, lines 526 and 1421
SeatGridDialog_onConfirm ==
    /\ Invoke
    /\ Rendered
    /\ seatGridDialog # NULL
    /\ \E g \in GridInputs : handleFillWithSeats(seatGridDialog, g[1], g[2], g[3])
    /\ Bubbles

\* SeatGridDialog onCancel, lines 513 and 1422
SeatGridDialog_onCancel ==
    /\ Invoke
    /\ Rendered
    /\ seatGridDialog # NULL
    /\ seatGridDialog' = NULL
    /\ Silent
    /\ threw' = FALSE
    /\ UNCHANGED << objs, arrs, view, scale, exported, now, tool, selectedId,
                    editingSection, contextMenu, seatContextMenu, seatEditDialog,
                    colorPickerDialog >>
    /\ Bubbles

-----------------------------------------------------------------------------
(* Events of a seat's Circle, lines 1312-1323 *)

\* Math.cos and Math.sin of an angle in degrees, a multiple of 90, in exact
\* arithmetic
Cos(d) == CASE d % 360 = 0 -> 1 [] d % 360 = 90 -> 0 [] d % 360 = 180 -> -1 [] d % 360 = 270 -> 0
Sin(d) == CASE d % 360 = 0 -> 0 [] d % 360 = 90 -> 1 [] d % 360 = 180 -> 0 [] d % 360 = 270 -> -1

\* lines 915-933: the dragged point, in the section's own frame
worldToLocal(section, draggedX, draggedY) ==
    LET centerX == section.x + section.width \div 2
        centerY == section.y + section.height \div 2
        relativeX == draggedX - centerX
        relativeY == draggedY - centerY
        angle == -section.rotation
        originalX == relativeX * Cos(angle) - relativeY * Sin(angle)
        originalY == relativeX * Sin(angle) + relativeY * Cos(angle)
    IN  << originalX + section.width \div 2, originalY + section.height \div 2 >>

\* A faulty variant of localToWorld, kept to show what the placement
\* properties detect: the seat is turned about the section's top-left corner.
localToWorldAboutCorner(section, x, y) ==
    LET angle == section.rotation
        rotatedX == x * Cos(angle) - y * Sin(angle)
        rotatedY == x * Sin(angle) + y * Cos(angle)
    IN  << section.x + rotatedX, section.y + rotatedY >>

\* lines 1291-1309: where a seat's Circle is drawn, from the section's frame
localToWorld(section, x, y) ==
    LET centerX == section.x + section.width \div 2
        centerY == section.y + section.height \div 2
        seatX == section.x + x
        seatY == section.y + y
        relativeX == seatX - centerX
        relativeY == seatY - centerY
        angle == section.rotation
        rotatedX == relativeX * Cos(angle) - relativeY * Sin(angle)
        rotatedY == relativeX * Sin(angle) + relativeY * Cos(angle)
    IN  << centerX + rotatedX, centerY + rotatedY >>

\* index of the seat with this id in a seats array (findIndex)
seatIndex(seats, id) == findIndex(seats, id)

\* an uncaught TypeError: the handler stops where it is
Throws ==
    /\ objs' = objs
    /\ Silent
    /\ threw' = TRUE

(* handleSeatDragEnd(e, seat, section), lines 909-940: moveSeat.  seat and
   section are the objects the Circle was rendered from. *)
handleSeatDragEnd(draggedX, draggedY, seat, section) ==
    /\ LET i == sectionIndex(view, section.id)
       IN  IF i = 0
           THEN Throws      \* newLayout.sections[-1].seats, line 912
           ELSE LET a == AddrAt(view, i)
                    k == seatIndex(objs[a].seats, seat.id)
                    p == worldToLocal(section, draggedX, draggedY)
                IN  IF k = 0
                    THEN Throws      \* seats[-1].x = ..., line 935
                    ELSE /\ Exact(section.width, 2) /\ Exact(section.height, 2)
                         /\ objs' = [ objs EXCEPT ![a].seats[k].x = p[1],
                                                  ![a].seats[k].y = p[2] ]
                         /\ Commit(view)
                         /\ threw' = FALSE
    /\ UNCHANGED << arrs, view, scale, exported, now, ui >>

\* the Circle of seat k of the section at address a is dropped at p;
\* draggable={tool === 'select' && !isSpacePressed}, line 1320
SeatDropped(a, k, p) ==
    /\ Invoke
    /\ Rendered
    /\ tool = "select"
    /\ handleSeatDragEnd(p[1], p[2], objs[a].seats[k], objs[a])
    /\ Bubbles

Circle_onDragEnd ==
    \E a \in Shown(view), p \in SeatDragPoints :
      \E k \in 1..Len(objs[a].seats) : SeatDropped(a, k, p)

(* handleSeatContextMenu(e, seat), lines 1038-1046 *)
handleSeatContextMenu(seat) ==
    /\ seatContextMenu' = [ seatId |-> seat.id, sectionId |-> seat.sectionId ]
    /\ Silent
    /\ threw' = FALSE
    /\ UNCHANGED << objs, arrs, view, scale, exported, now, tool, selectedId,
                    editingSection, contextMenu, seatGridDialog, seatEditDialog,
                    colorPickerDialog >>

Circle_onContextMenu ==
    /\ Invoke
    /\ Rendered
    /\ \E a \in Shown(view) :
         \E k \in 1..Len(objs[a].seats) : handleSeatContextMenu(objs[a].seats[k])
    /\ Stops

-----------------------------------------------------------------------------
(* The seat context menu, lines 1392-1416; the menu stops the click, line 278 *)

\* layout.sections.find(...)?.seats.find(...) finds a seat, line 1398
seatFound(lay, ref) ==
    LET i == sectionIndex(lay, ref.sectionId)
    IN  i # 0 /\ seatIndex(objs[AddrAt(lay, IF i = 0 THEN 1 ELSE i)].seats, ref.seatId) # 0

(* SeatContextMenu onEdit, lines 1397-1403: the dialog holds the seat found *)
SeatContextMenu_onEdit ==
    /\ Invoke
    /\ Rendered
    /\ Stops
    /\ seatContextMenu # NoSeatRef
    /\ seatEditDialog' = IF seatFound(view, seatContextMenu)
                         THEN seatContextMenu
                         ELSE seatEditDialog
    /\ seatContextMenu' = NoSeatRef
    /\ Silent
    /\ threw' = FALSE
    /\ UNCHANGED << objs, arrs, view, scale, exported, now, tool, selectedId,
                    editingSection, contextMenu, seatGridDialog, colorPickerDialog >>

(* SeatContextMenu onDelete, lines 1404-1413: deleteSeat *)
SeatContextMenu_onDelete ==
    /\ Invoke
    /\ Rendered
    /\ Stops
    /\ seatContextMenu # NoSeatRef
    /\ LET i == sectionIndex(view, seatContextMenu.sectionId)
       IN  IF i # 0
           THEN /\ objs' = [ objs EXCEPT ![AddrAt(view, i)].seats =
                               filter(@, seatContextMenu.seatId) ]
                /\ Commit(view)
           ELSE /\ objs' = objs
                /\ Silent
    /\ seatContextMenu' = NoSeatRef
    /\ threw' = FALSE
    /\ UNCHANGED << arrs, view, scale, exported, now, tool, selectedId, editingSection,
                    contextMenu, seatGridDialog, seatEditDialog, colorPickerDialog >>

(* handleSeatEdit(newId), lines 1066-1080: renameSeat *)
handleSeatEdit(newId) ==
    /\ IF seatEditDialog = NoSeatRef
       THEN /\ objs' = objs
            /\ Silent
            /\ seatEditDialog' = seatEditDialog
       ELSE /\ IF seatFound(view, seatEditDialog)
               THEN LET a == AddrAt(view, sectionIndex(view, seatEditDialog.sectionId))
                        k == seatIndex(objs[a].seats, seatEditDialog.seatId)
                    IN  /\ objs' = [ objs EXCEPT ![a].seats[k].id = newId ]
                        /\ Commit(view)
               ELSE /\ objs' = objs
                    /\ Silent
            /\ seatEditDialog' = NoSeatRef
    /\ threw' = FALSE
    /\ UNCHANGED << arrs, view, scale, exported, now, tool, selectedId, editingSection,
                    contextMenu, seatContextMenu, seatGridDialog, colorPickerDialog >>

\* SeatEditDialog onConfirm, lines 597 and 1430
SeatEditDialog_onConfirm ==
    /\ Invoke
    /\ Rendered
    /\ seatEditDialog # NoSeatRef
    /\ \E newId \in SeatIdInputs : handleSeatEdit(newId)
    /\ Bubbles

\* SeatEditDialog onCancel, lines 584 and 1431
SeatEditDialog_onCancel ==
    /\ Invoke
    /\ Rendered
    /\ seatEditDialog # NoSeatRef
    /\ seatEditDialog' = NoSeatRef
    /\ Silent
    /\ threw' = FALSE
    /\ UNCHANGED << objs, arrs, view, scale, exported, now, tool, selectedId,
                    editingSection, contextMenu, seatContextMenu, seatGridDialog,
                    colorPickerDialog >>
    /\ Bubbles

-----------------------------------------------------------------------------
(* The section-name editor, lines 1436-1490 *)

(* handleSectionNameChange(sectionId, newName), lines 1028-1036: renameSection *)
handleSectionNameChange(id, newName) ==
    /\ LET i == sectionIndex(view, id)
       IN  IF i # 0
           THEN /\ objs' = [ objs EXCEPT ![AddrAt(view, i)].name = newName ]
                /\ Commit(view)
           ELSE /\ objs' = objs
                /\ Silent
    /\ threw' = FALSE
    /\ UNCHANGED << arrs, view, scale, exported, now, ui >>

\* the input's onChange, line 1452
NameEditor_onChange ==
    /\ Invoke
    /\ Rendered
    /\ editingSection # NULL
    /\ \E newName \in NameInputs : handleSectionNameChange(editingSection, newName)
    /\ Stops

\* Cancel and Save, lines 1463 and 1476
NameEditor_onClose ==
    /\ Invoke
    /\ Rendered
    /\ editingSection # NULL
    /\ editingSection' = NULL
    /\ Silent
    /\ threw' = FALSE
    /\ UNCHANGED << objs, arrs, view, scale, exported, now, tool, selectedId,
                    contextMenu, seatContextMenu, seatGridDialog, seatEditDialog,
                    colorPickerDialog >>
    /\ Bubbles

-----------------------------------------------------------------------------
(* Zoom, lines 710-726 and 968-971.  The scale is a state cell of its own:
   no zoom handler calls setLayout.  A zoom event is taken after the render
   of the one before it. *)

Min2(a, b) == IF a <= b THEN a ELSE b

\* Math.max(0.1, Math.min(3, newScale)), in thousandths
clampScale(v) == Max2(100, Min2(3000, v))

\* scale * num / den is a number the model holds exactly, or the clamp discards it
ExactScale(num, den) ==
    \/ Exact(scale * num, den)
    \/ (scale * num) \div den >= 3000
    \/ (scale * num) \div den < 100

(* handleZoom(direction), lines 968-971: scale * 1.2 or scale / 1.2 *)
handleZoom(direction) ==
    /\ IF direction = "in"
       THEN ExactScale(6, 5) /\ scale' = clampScale((scale * 6) \div 5)
       ELSE ExactScale(5, 6) /\ scale' = clampScale((scale * 5) \div 6)
    /\ Silent
    /\ threw' = FALSE
    /\ UNCHANGED << objs, arrs, view, now, exported, ui >>

\* the ref's zoomIn (line 1087) or the toolbar button (line 1172)
zoomIn ==
    /\ Invoke
    /\ handleZoom("in")
    /\ Stops \/ (Rendered /\ Bubbles)

\* the ref's zoomOut (line 1088) or the toolbar button (line 1185)
zoomOut ==
    /\ Invoke
    /\ handleZoom("out")
    /\ Stops \/ (Rendered /\ Bubbles)

(* handleWheel with e.ctrlKey, lines 710-719: scale * 1.1 or scale / 1.1 *)
handleWheel ==
    /\ Invoke
    /\ \E direction \in { "in", "out" } :
         IF direction = "in"
         THEN ExactScale(11, 10) /\ scale' = clampScale((scale * 11) \div 10)
         ELSE ExactScale(10, 11) /\ scale' = clampScale((scale * 10) \div 11)
    /\ Silent
    /\ threw' = FALSE
    /\ Stops
    /\ UNCHANGED << objs, arrs, view, now, exported, ui >>

-----------------------------------------------------------------------------
(* The ref's getLayout, line 1090, and exportToJSON, lines 1011-1026: both
   read the layout of the last render *)

getLayout == view

\* layout.sections.reduce((sum, section) => sum + section.seats.length, 0)
RECURSIVE totalSeats(_)
totalSeats(sections) ==
    IF sections = << >> THEN 0
    ELSE Len(Head(sections).seats) + totalSeats(Tail(sections))

\* what JSON.stringify(jsonData) writes, lines 1012-1018
jsonData ==
    [ sections |-> Sections(view),
      scale |-> view.scale,
      exportDate |-> now,
      totalSeats |-> totalSeats(Sections(view)) ]

\* the ref's exportToJSON (line 1089) or the toolbar button (line 1198);
\* link.click() is on an element outside the document
exportToJSON ==
    /\ Invoke
    /\ exported' = jsonData
    /\ Silent
    /\ threw' = FALSE
    /\ UNCHANGED << objs, arrs, view, now, scale, ui >>
    /\ Stops \/ (Rendered /\ Bubbles)

-----------------------------------------------------------------------------
(* The editor: every handler, any order *)

Next ==
    \/ Render
    \/ Tick
    \/ addSection
    \/ addLabelSection
    \/ setTool
    \/ Ref_setLayout
    \/ Rect_onDragEnd
    \/ Rect_onClick
    \/ Rect_onContextMenu
    \/ Rect_onTransformEnd
    \/ Stage_onClick
    \/ Text_onClick
    \/ handleClickOutside
    \/ ContextMenu_onDuplicate
    \/ ContextMenu_onEdit
    \/ ContextMenu_onFillWithSeats
    \/ ContextMenu_onDelete
    \/ ContextMenu_onChangeColor
    \/ ColorPickerDialog_onConfirm
    \/ ColorPickerDialog_onCancel
    \/ SeatGridDialog_onConfirm
    \/ SeatGridDialog_onCancel
    \/ Circle_onDragEnd
    \/ Circle_onContextMenu
    \/ SeatContextMenu_onEdit
    \/ SeatContextMenu_onDelete
    \/ SeatEditDialog_onConfirm
    \/ SeatEditDialog_onCancel
    \/ NameEditor_onChange
    \/ NameEditor_onClose
    \/ zoomIn
    \/ zoomOut
    \/ handleWheel
    \/ exportToJSON

Spec == Init /\ [][Next]_vars

-----------------------------------------------------------------------------
(* A burst: what the editor can do within one reading of the clock, followed
   further than Spec goes.  Its behaviours are behaviours of the editor. *)

\* handler invocations explored from the initial state under SpecBurst
BurstSteps == 9

NextBurst ==
    \/ Render
    \/ addSection
    \/ addLabelSection
    \/ Rect_onContextMenu
    \/ ContextMenu_onDuplicate
    \/ ContextMenu_onFillWithSeats
    \/ ContextMenu_onDelete
    \/ SeatGridDialog_onConfirm
    \/ Circle_onDragEnd
    \/ handleClickOutside

SpecBurst == InitWith(BurstSteps) /\ [][NextBurst]_vars

-----------------------------------------------------------------------------
(* The editor constructed with an initialLayout prop, line 622: one section,
   turned by any multiple of a quarter turn, that holds a seat at its centre.
   The handlers are those that place a section or a seat. *)

\* handler invocations explored from the initial state under SpecPlaced
PlacedSteps == 3

\* section.rotation of the initialLayout, in degrees
Rotations == { -90, 0, 90, 180, 270, 450 }

\* the sections of the initialLayout prop
initialLayout ==
    { << [ id |-> "section-1", name |-> "Section A", color |-> "#ff6b6b",
           x |-> 50, y |-> 200, width |-> w, height |-> 120, rotation |-> r,
           seats |-> << [ id |-> "Section A-A-1", x |-> w \div 2, y |-> 60,
                          row |-> "A", number |-> 1, sectionId |-> "section-1",
                          seatSize |-> defaultSeatSize ] >>,
           type |-> "section" ] >> : w \in { 150, 60 }, r \in Rotations }

InitPlaced ==
    /\ objs \in initialLayout
    /\ arrs = << <<1>> >>
    /\ layout = [ sections |-> 1, scale |-> 1 ]
    /\ view = [ sections |-> 1, scale |-> 1 ]
    /\ now = Epoch
    /\ tool = "select"
    /\ selectedId = NULL
    /\ editingSection = NULL
    /\ contextMenu = NULL
    /\ seatContextMenu = NoSeatRef
    /\ seatGridDialog = NULL
    /\ seatEditDialog = NoSeatRef
    /\ colorPickerDialog = NoPicker
    /\ emitted = NoLayout
    /\ notes = 0
    /\ threw = FALSE
    /\ clicked = FALSE
    /\ scale = 1000
    /\ exported = NoExport
    /\ fuel = PlacedSteps

NextPlaced ==
    \/ setTool
    \/ Rect_onClick
    \/ Rect_onDragEnd
    \/ Rect_onTransformEnd
    \/ Circle_onDragEnd

SpecPlaced == InitPlaced /\ [][NextPlaced]_vars

-----------------------------------------------------------------------------
(* The editor under the commands on the seats of a section: addSeat,
   deleteSeat and fillWithSeats, with the events that lead to them.  Its
   behaviours are behaviours of the editor. *)

\* handler invocations explored from the initial state under SpecSeats
SeatSteps == 7

NextSeats ==
    \/ setTool
    \/ Rect_onClick
    \/ Circle_onContextMenu
    \/ SeatContextMenu_onDelete
    \/ Rect_onContextMenu
    \/ ContextMenu_onFillWithSeats
    \/ SeatGridDialog_onConfirm
    \/ handleClickOutside

SpecSeats == InitWith(SeatSteps) /\ [][NextSeats]_vars

-----------------------------------------------------------------------------
(* Properties *)

\* all seats of a layout, section after section
RECURSIVE Flatten(_)
Flatten(ss) == IF ss = << >> THEN << >> ELSE Head(ss).seats \o Flatten(Tail(ss))
AllSeats(lay) == Flatten(Sections(lay))

\* no two elements of the sequence are equal
Distinct(s) == \A i \in 1..Len(s), j \in 1..Len(s) : s[i] = s[j] => i = j

Ids(s) == [ i \in 1..Len(s) |-> s[i].id ]

\* the value of the current layout after the step
DeepNext == DeepIn(objs', arrs', layout')

\* C1: referential integrity.  In every reachable layout, every seat held in
\* a section's seats has that section's id as its sectionId, the seats of a
\* duplicated section included.
C1_ReferentialIntegrity ==
    \A i \in 1..Len(Sections(layout)) :
      \A k \in 1..Len(Sections(layout)[i].seats) :
        Sections(layout)[i].seats[k].sectionId = Sections(layout)[i].id

\* C2: snapshot immutability.  No step changes the value of the layout last
\* handed to onLayoutChange: it keeps the sections, seats and field values it
\* had when it was handed out.
C2_SnapshotImmutability ==
    [][ emitted # NoLayout => DeepIn(objs', arrs', emitted) = Deep(emitted) ]_vars

\* the raw spacing of lines 875-876, before Math.max, is below minPadding
rawTooSmall(section, rows, cols, seatSize) ==
    \/ rawSpacing(section.width, cols, seatSize) < minPadding
    \/ rawSpacing(section.height, rows, seatSize) < minPadding

\* fillWithSeats on an existing section with a grid whose raw spacing is too small
FillTooSmall ==
    /\ seatGridDialog # NULL
    /\ sectionIndex(view, seatGridDialog) # 0
    /\ \E g \in GridInputs :
         /\ rawTooSmall(objs[AddrAt(view, sectionIndex(view, seatGridDialog))], g[1], g[2], g[3])
         /\ handleFillWithSeats(seatGridDialog, g[1], g[2], g[3])

\* C3: grid-fill rejection.  fillWithSeats with a raw spacing below the
\* minimum padding 15 leaves the layout as it was and sends no notification.
C3_GridFillRejection ==
    [][ FillTooSmall => DeepNext = Deep(layout) /\ notes' = 0 ]_vars

\* a command whose target section or seat is not in the current layout
NotFoundCommand ==
    \/ ContextMenu_onDuplicate /\ sectionIndex(layout, contextMenu) = 0
    \/ ContextMenu_onDelete /\ sectionIndex(layout, contextMenu) = 0
    \/ SeatGridDialog_onConfirm /\ sectionIndex(layout, seatGridDialog) = 0
    \/ NameEditor_onChange /\ sectionIndex(layout, editingSection) = 0
    \/ SeatContextMenu_onDelete /\ ~seatFound(layout, seatContextMenu)
    \/ SeatEditDialog_onConfirm /\ ~seatFound(layout, seatEditDialog)

\* C4: not-found is a silent no-op.  A command whose target section id or
\* seat id is not in the current layout leaves the layout unchanged and does
\* not invoke onLayoutChange.
C4_NotFoundSilent ==
    [][ NotFoundCommand => DeepNext = Deep(layout) /\ notes' = 0 ]_vars

\* C5: moveSeat never crashes.  The end of a seat drag, whatever the layout
\* holds under the seat's section id, completes without raising an exception.
C5_MoveSeatNeverThrows ==
    [][ Circle_onDragEnd => threw' = FALSE ]_vars

\* C6: one notification per successful command.  Every step that changes the
\* current layout invokes onLayoutChange exactly once, with the layout the
\* editor holds as current after the step.
C6_OneNotificationPerChange ==
    [][ DeepNext # Deep(layout) => notes' = 1 /\ emitted' = layout' ]_vars

\* a command has changed the default layout and the observer holds the result
C6_Notified ==
    /\ notes = 1
    /\ emitted = layout
    /\ Deep(layout).sections # defaultSections

\* C7: label exclusion.  In every reachable layout every section of type
\* 'label' has an empty seats sequence.
C7_LabelExclusion ==
    \A i \in 1..Len(Sections(layout)) :
      Sections(layout)[i].type = "label" => Sections(layout)[i].seats = << >>

\* C8: seat ids are unique within the whole layout.  No two seats, of the
\* same or of different sections, share an id, unless it is an id the user
\* typed into the seat-id editor (renameSeat is not among the claim's commands).
C8_SeatIdsUnique ==
    \A i \in 1..Len(AllSeats(layout)), j \in 1..Len(AllSeats(layout)) :
      AllSeats(layout)[i].id = AllSeats(layout)[j].id
        => i = j \/ AllSeats(layout)[i].id \in SeatIdInputs

\* C9: section ids are unique.  The ids of the sections in layout.sections
\* are pairwise distinct in every reachable layout.
C9_SectionIdsUnique == Distinct(Ids(Sections(layout)))

\* duplicateSection on an existing section
DuplicateExisting == ContextMenu_onDuplicate /\ sectionIndex(layout, contextMenu) # 0

\* C10: duplicate uniqueness.  duplicateSection on an existing section appends
\* a section whose id differs from every section id, and whose seats' ids
\* differ from one another and from every seat id, of the layout before.
C10_DuplicateUniqueness ==
    [][ DuplicateExisting =>
          LET before == Sections(layout)
              after == SectionsIn(objs', arrs', layout')
              copy == after[Len(after)]
          IN  /\ Len(after) = Len(before) + 1
              /\ \A i \in 1..Len(before) : copy.id # before[i].id
              /\ Distinct(Ids(copy.seats))
              /\ \A k \in 1..Len(copy.seats), m \in 1..Len(AllSeats(layout)) :
                    copy.seats[k].id # AllSeats(layout)[m].id ]_vars

\* deleteSection on an existing section
DeleteExisting == ContextMenu_onDelete /\ sectionIndex(layout, contextMenu) # 0

\* the sections of a sequence whose id is not the given one, in their order
Without(ss, id) == SelectSeq(ss, LAMBDA x : x.id # id)

\* C11: delete cascade.  deleteSection(id) on an existing section gives a
\* layout with no section of that id and no seat whose sectionId is that id,
\* and with every other section unchanged and in the order it had.
C11_DeleteCascade ==
    [][ DeleteExisting =>
          LET after == SectionsIn(objs', arrs', layout')
          IN  /\ \A i \in 1..Len(after) : after[i].id # contextMenu
              /\ \A k \in 1..Len(Flatten(after)) : Flatten(after)[k].sectionId # contextMenu
              /\ after = Without(Sections(layout), contextMenu) ]_vars

\* x and y of every seat of every section object but seat k of the one at a
OtherSeatsStay(a, k) ==
    \A b \in DOMAIN objs :
      /\ Len(objs'[b].seats) = Len(objs[b].seats)
      /\ \A j \in 1..Len(objs[b].seats) :
           (b # a \/ j # k) => /\ objs'[b].seats[j].x = objs[b].seats[j].x
                               /\ objs'[b].seats[j].y = objs[b].seats[j].y

\* C12: drag round trip.  After a seat is dropped at (wx, wy) and moveSeat has
\* completed, the dragged seat's stored (x, y) is worldToLocal(section, wx, wy),
\* the render transform draws it at (wx, wy) again, and the coordinates of no
\* other seat have changed.
C12_DragRoundTrip ==
    [][ \A a \in Shown(view), p \in SeatDragPoints :
          \A k \in 1..Len(objs[a].seats) :
            SeatDropped(a, k, p) /\ ~threw' =>
              /\ << objs'[a].seats[k].x, objs'[a].seats[k].y >> = worldToLocal(objs[a], p[1], p[2])
              /\ localToWorld(objs'[a], objs'[a].seats[k].x, objs'[a].seats[k].y) = p
              /\ OtherSeatsStay(a, k) ]_vars

\* address of the section the seat grid dialog is open for
FillTarget == AddrAt(view, sectionIndex(view, seatGridDialog))

\* fillWithSeats with the grid g on an existing section passes the test of
\* line 879 and produces seats
FillProduces(g) ==
    /\ seatGridDialog # NULL
    /\ sectionIndex(view, seatGridDialog) # 0
    /\ ~tooSmall(objs[FillTarget], g[1], g[2], g[3])
    /\ handleFillWithSeats(seatGridDialog, g[1], g[2], g[3])

\* C13: grid-fill coverage.  Whenever fillWithSeats(section, rows, cols,
\* seatSize) produces seats for a section of width W and height H, it
\* produces rows * cols seats with pairwise distinct ids, each with
\* 0 <= x <= W and 0 <= y <= H.
C13_GridFillCoverage ==
    [][ \A g \in GridInputs :
          FillProduces(g) =>
            LET seats == objs'[FillTarget].seats
            IN  /\ Len(seats) = g[1] * g[2]
                /\ Distinct(Ids(seats))
                /\ \A k \in 1..Len(seats) :
                     /\ 0 <= seats[k].x /\ seats[k].x <= objs[FillTarget].width
                     /\ 0 <= seats[k].y /\ seats[k].y <= objs[FillTarget].height ]_vars

\* C14: grid-fill is destructive and row-major.  After a successful
\* fillWithSeats(sectionId, rows, cols, seatSize) the section's seats are the
\* generated ones only, row after row; the seat of row r and column c has
\* x = spacingX + c * (2 * seatSize + spacingX), y = spacingY + r * (2 * seatSize
\* + spacingY), the r-th letter as row, number c + 1, the given seatSize, id
\* "{name}-{row}-{number}" and the section's id as sectionId; the section's
\* other fields and all other sections are unchanged.
C14_GridFillRowMajor ==
    [][ \A g \in GridInputs :
          FillProduces(g) =>
            LET section == objs[FillTarget]
                seats == objs'[FillTarget].seats
                spacingX == spacing(section.width, g[2], g[3])
                spacingY == spacing(section.height, g[1], g[3])
            IN  /\ Len(seats) = g[1] * g[2]
                /\ \A r \in 0..(g[1] - 1), c \in 0..(g[2] - 1) :
                     seats[r * g[2] + c + 1] =
                       [ id |-> section.name \o "-" \o Letters[r + 1] \o "-" \o ToString(c + 1),
                         x |-> spacingX + c * (2 * g[3] + spacingX),
                         y |-> spacingY + r * (2 * g[3] + spacingY),
                         row |-> Letters[r + 1],
                         number |-> c + 1,
                         seatSize |-> g[3],
                         sectionId |-> section.id ]
                /\ objs'[FillTarget] = [ section EXCEPT !.seats = seats ]
                /\ \A b \in DOMAIN objs : b # FillTarget => objs'[b] = objs[b]
                /\ arrs'[layout'.sections] = arrs[layout.sections] ]_vars

\* a fill has completed and a section holds a 2 x 2 grid, row A before row B
C14_Filled ==
    \E a \in Shown(layout) :
      /\ seatGridDialog = NULL
      /\ notes = 1
      /\ Len(objs[a].seats) = 4
      /\ objs[a].seats[2].row = "A" /\ objs[a].seats[2].number = 2
      /\ objs[a].seats[3].row = "B" /\ objs[a].seats[3].number = 1
      /\ objs[a].seats[3].y > objs[a].seats[2].y

\* transformSection of the selected, existing section with the input t
Transformed(t) ==
    /\ selectedId # NULL
    /\ sectionIndex(view, selectedId) # 0
    /\ handleTransformEnd(t[1], t[2], t[3], t[4], t[5])

\* C15: transformSection keeps the centre.  After transformSection(id, worldX,
\* worldY, width, height, rotation) on an existing section the stored width
\* and height are max(given extent, 50), the stored rotation is the given
\* one, and x + width / 2 = worldX and y + height / 2 = worldY with the stored
\* width and height, extents below 50 included.
C15_TransformKeepsCentre ==
    [][ \A t \in TransformInputs :
          Transformed(t) =>
            LET after == objs'[AddrAt(view, sectionIndex(view, selectedId))]
            IN  /\ after.width = Max2(t[3], minExtent)
                /\ after.height = Max2(t[4], minExtent)
                /\ after.rotation = t[5]
                /\ 2 * after.x + after.width = 2 * t[1]
                /\ 2 * after.y + after.height = 2 * t[2] ]_vars

\* the world position p lies on the Rect of the section
Hit(section, p) ==
    LET q == worldToLocal(section, p[1], p[2])
    IN  /\ Exact(section.width, 2) /\ Exact(section.height, 2)
        /\ 0 <= q[1] /\ q[1] <= section.width
        /\ 0 <= q[2] /\ q[2] <= section.height

\* addSeat: a click at p, with the add-seat tool, on an existing section of
\* type 'section'
SeatAdded(a, p) ==
    /\ tool = "add-seat"
    /\ objs[a].type = "section"
    /\ Hit(objs[a], p)
    /\ SectionClicked(a, p)

\* C16: addSeat(sectionId, worldX, worldY) on an existing section of type
\* 'section' appends one seat to that section's seats, at (x, y) =
\* worldToLocal(section, worldX, worldY) of the clicked position, with row
\* 'A', number = the seat count before + 1, seatSize 8 and the section's id
\* as sectionId; the seats held before and the other sections are unchanged.
C16_AddSeatAtClick ==
    [][ \A a \in Shown(view), p \in ClickPoints :
          SeatAdded(a, p) =>
            LET before == objs[a].seats
                after == objs'[a].seats
                seat == after[Len(after)]
            IN  /\ Len(after) = Len(before) + 1
                /\ SubSeq(after, 1, Len(before)) = before
                /\ << seat.x, seat.y >> = worldToLocal(objs[a], p[1], p[2])
                /\ seat.row = "A"
                /\ seat.number = Len(before) + 1
                /\ seat.seatSize = defaultSeatSize
                /\ seat.sectionId = objs[a].id
                /\ objs'[a] = [ objs[a] EXCEPT !.seats = after ]
                /\ \A b \in DOMAIN objs : b # a => objs'[b] = objs[b] ]_vars

\* the sections, scale and totalSeats of an export
Written(j) == [ sections |-> j.sections, scale |-> j.scale, totalSeats |-> j.totalSeats ]

\* a step in which no command is issued
NoCommand == exportToJSON \/ Render \/ Tick

\* C17: export is read-only.  exportToJSON leaves the current layout as it is
\* and sends no notification, and the exported totalSeats is the sum of the
\* lengths of the exported sections' seats; an export made before and one
\* made after steps without a command write the same sections, scale and
\* totalSeats.
C17_ExportReadOnly ==
    [][ /\ exportToJSON =>
             /\ layout' = layout
             /\ DeepNext = Deep(layout)
             /\ notes' = 0
             /\ emitted' = emitted
             /\ exported'.totalSeats = Len(Flatten(exported'.sections))
        /\ NoCommand /\ exported # NoExport /\ Written(exported) = Written(jsonData) =>
             Written(jsonData') = Written(exported) ]_vars

\* C18: layout.scale is the current zoom scale.  After every step, zoomIn,
\* zoomOut and Ctrl+wheel included, the scale field of the layout that
\* getLayout returns, of the layout passed to onLayoutChange in the step and
\* of what exportToJSON writes equals the scale of the view (held in
\* thousandths).
C18_LayoutScaleIsZoom ==
    [][ /\ getLayout'.scale * 1000 = scale'
        /\ jsonData'.scale * 1000 = scale'
        /\ notes' = 1 => emitted'.scale * 1000 = scale' ]_vars

\* C19: getLayout() returns the current layout.  Once a command has notified
\* the observer, getLayout() returns the layout last passed to
\* onLayoutChange, before the component has re-rendered as well as after.
C19_GetLayoutIsCurrent ==
    emitted # NoLayout => Deep(getLayout) = Deep(emitted)

\* moveSection(id, p) on an existing section: the end of a drag of its Rect
MoveSection(id, p) ==
    /\ sectionIndex(view, id) # 0
    /\ Invoke
    /\ Rendered
    /\ tool = "select"
    /\ handleDragEnd(id, p[1], p[2])
    /\ Bubbles

\* C20: moveSection(id, worldX, worldY) on an existing section sets
\* x = worldX - width / 2 and y = worldY - height / 2 with the section's width
\* and height, and leaves its width, height, rotation, name, color, type and
\* seats, and every other section, unchanged.
C20_MoveSectionFrame ==
    [][ \A a \in Shown(view), p \in DragPoints :
          MoveSection(objs[a].id, p) =>
            LET t == AddrAt(view, sectionIndex(view, objs[a].id))
            IN  /\ 2 * objs'[t].x + objs[t].width = 2 * p[1]
                /\ 2 * objs'[t].y + objs[t].height = 2 * p[2]
                /\ objs'[t] = [ objs[t] EXCEPT !.x = objs'[t].x, !.y = objs'[t].y ]
                /\ \A b \in DOMAIN objs : b # t => objs'[b] = objs[b]
                /\ arrs'[layout'.sections] = arrs[layout.sections] ]_vars

\* a section that holds a seat has been moved: its centre is a drop point
C20_Moved ==
    \E a \in Shown(layout), p \in DragPoints :
      /\ tool = "select"
      /\ notes = 1
      /\ emitted = layout
      /\ objs[a].seats # << >>
      /\ 2 * objs[a].x + objs[a].width = 2 * p[1]
      /\ 2 * objs[a].y + objs[a].height = 2 * p[2]

\* the fields of a seat that a copy keeps
SeatShape(seat) ==
    [ x |-> seat.x, y |-> seat.y, row |-> seat.row, number |-> seat.number,
      seatSize |-> seat.seatSize ]

\* what duplicateSection appends is a copy of the section it was issued on,
\* and the sections held before are as they were
CopyAppended ==
    LET before == Sections(layout)
        after == SectionsIn(objs', arrs', layout')
        section == before[sectionIndex(layout, contextMenu)]
        copy == after[Len(after)]
    IN  /\ Len(after) = Len(before) + 1
        /\ SubSeq(after, 1, Len(before)) = before
        /\ \A a \in DOMAIN objs : objs'[a] = objs[a]
        /\ copy.width = section.width /\ copy.height = section.height
        /\ copy.rotation = section.rotation
        /\ copy.color = section.color /\ copy.type = section.type
        /\ copy.x = section.x + duplicateOffset /\ copy.y = section.y + duplicateOffset
        /\ Len(copy.seats) = Len(section.seats)
        /\ \A k \in 1..Len(section.seats) :
             SeatShape(copy.seats[k]) = SeatShape(section.seats[k])

\* the section object at b is shown as a copy of the one at a
IsCopyOf(b, a) == a # b /\ objs[b].name = objs[a].name \o " (Copy)"

\* a command issued on the section object at b, or on one of its seats: the
\* end of a drag of its Rect or of the Circle of one of its seats
CommandOn(b) ==
    \/ \E p \in DragPoints : MoveSection(objs[b].id, p)
    \/ \E p \in SeatDragPoints : \E k \in 1..Len(objs[b].seats) : SeatDropped(b, k, p)

\* C21: duplicateSection(id) on an existing section appends a deep copy at
\* the end of layout.sections: same width, height, rotation, color and type,
\* position (x + 20, y + 20), the same seats in x, y, row, number and seatSize;
\* the original is unchanged, and a later command on the copy does not change
\* the original, nor one on the original the copy.
C21_DuplicateIsDeepCopy ==
    [][ /\ DuplicateExisting => CopyAppended
        /\ \A a \in Shown(view), b \in Shown(view) :
             IsCopyOf(b, a) =>
               /\ CommandOn(b) => objs'[a] = objs[a]
               /\ CommandOn(a) => objs'[b] = objs[b] ]_vars

\* C22: rotation invariance of the centre.  A seat whose local position is
\* (width / 2, height / 2) is drawn by the render transform at
\* (section.x + width / 2, section.y + height / 2), whatever section.rotation is.
C22_CentreIsFixed ==
    \A a \in Shown(layout) :
      \A k \in 1..Len(objs[a].seats) :
        LET section == objs[a]
            seat == section.seats[k]
        IN  2 * seat.x = section.width /\ 2 * seat.y = section.height =>
              localToWorld(section, seat.x, seat.y) =
                << section.x + section.width \div 2, section.y + section.height \div 2 >>

\* a section turned by more than a full turn, moved, with a seat at its centre
C22_TurnedAndMoved ==
    \E a \in Shown(layout) :
      /\ objs[a].rotation = 450
      /\ notes = 1
      /\ objs[a].x # 50
      /\ \E k \in 1..Len(objs[a].seats) :
           2 * objs[a].seats[k].x = objs[a].width /\ 2 * objs[a].seats[k].y = objs[a].height

\* C23: recolorSection is a field update on the current layout.  Confirming a
\* colour in the colour-picker dialog gives the layout that was current at
\* the confirmation, with at most the color of the target section changed:
\* the sections added, duplicated, deleted or installed since the dialog was
\* opened are as they were before the confirmation.
C23_RecolorOnCurrentLayout ==
    [][ ColorPickerDialog_onConfirm =>
          LET before == Sections(layout)
              after == SectionsIn(objs', arrs', layout')
          IN  /\ Len(after) = Len(before)
              /\ \A i \in 1..Len(before) :
                   \/ after[i] = before[i]
                   \/ /\ before[i].id = colorPickerDialog.sectionId
                      /\ after[i] = [ before[i] EXCEPT !.color = after[i].color ] ]_vars

\* C24: no lost commands.  addSection and addLabelSection are applied to the
\* result of the command before them, a re-render in between or not: the
\* layout after holds every section of the current layout before, in order,
\* and the new section after them.
C24_NoLostCommands ==
    [][ addSection \/ addLabelSection =>
          LET before == Sections(layout)
              after == SectionsIn(objs', arrs', layout')
          IN  /\ Len(after) = Len(before) + 1
              /\ SubSeq(after, 1, Len(before)) = before ]_vars

\* deleteSeat on a seat that the current layout holds
DeleteSeatExisting == SeatContextMenu_onDelete /\ seatFound(layout, seatContextMenu)

\* C25: deleteSeat(sectionId, seatId) on an existing seat removes one seat,
\* the targeted one: the section's seats become shorter by one, the seats that
\* remain keep their order and their fields, and every other section is
\* unchanged.
C25_DeleteSeatRemovesOne ==
    [][ DeleteSeatExisting =>
          LET a == AddrAt(layout, sectionIndex(layout, seatContextMenu.sectionId))
              before == objs[a].seats
              after == objs'[a].seats
          IN  /\ Len(after) = Len(before) - 1
              /\ \E k \in 1..Len(before) :
                   /\ before[k].id = seatContextMenu.seatId
                   /\ after = splice(before, k)
              /\ objs'[a] = [ objs[a] EXCEPT !.seats = after ]
              /\ \A b \in DOMAIN objs : b # a => objs'[b] = objs[b]
              /\ arrs'[layout'.sections] = arrs[layout.sections] ]_vars

\* the Circles of two seats, centres (x, y) and radius seatSize, are at least
\* minPadding apart along the axis where their centres differ
Apart(s, t) ==
    /\ s.y = t.y /\ s.x < t.x => (t.x - t.seatSize) - (s.x + s.seatSize) >= minPadding
    /\ s.x = t.x /\ s.y < t.y => (t.y - t.seatSize) - (s.y + s.seatSize) >= minPadding

\* the Circle of a seat is at least minPadding inside each border of the
\* section's rectangle [0, width] x [0, height]
Inside(s, section) ==
    /\ s.x - s.seatSize >= minPadding
    /\ s.y - s.seatSize >= minPadding
    /\ section.width - (s.x + s.seatSize) >= minPadding
    /\ section.height - (s.y + s.seatSize) >= minPadding

\* C26: minimum padding of a fill.  In the seats of a fillWithSeats that
\* produces seats from a raw spacing of at least 15, the circles of seats next
\* to each other in a row or in a column are at least 15 apart, and every
\* seat's circle is at least 15 away from each of the four borders.
C26_FillKeepsPadding ==
    [][ \A g \in GridInputs :
          FillProduces(g) /\ ~rawTooSmall(objs[FillTarget], g[1], g[2], g[3]) =>
            LET seats == objs'[FillTarget].seats
            IN  /\ \A j \in 1..Len(seats), k \in 1..Len(seats) : Apart(seats[j], seats[k])
                /\ \A k \in 1..Len(seats) : Inside(seats[k], objs[FillTarget]) ]_vars

\* a click on a section with a tool other than 'add-seat'
ClickWithoutSeatTool == Rect_onClick /\ tool # "add-seat"

C28_MinimumSectionSize ==
    \A i \in 1..Len(Sections(layout)) :
      /\ Sections(layout)[i].width >= minExtent
      /\ Sections(layout)[i].height >= minExtent

\* a section transformed to a width below 50 holds the width 50
C28_Clamped ==
    \E a \in Shown(layout) :
      /\ objs[a].width = minExtent
      /\ objs[a].rotation = 90
      /\ notes = 1

\* C29: seat numbering stays distinct.  In every layout reached by addSeat,
\* deleteSeat and fillWithSeats, no two seats of a section have the same
\* (row, number) pair.
C29_SeatNumbersDistinct ==
    \A a \in Shown(layout) :
      \A j \in 1..Len(objs[a].seats), k \in 1..Len(objs[a].seats) :
        /\ objs[a].seats[j].row = objs[a].seats[k].row
        /\ objs[a].seats[j].number = objs[a].seats[k].number
        => j = k

\* a state cell holds the id of a section, and the current layout has no
\* section of that id
Dangling(cell) == cell # NULL /\ sectionIndex(layout, cell) = 0

\* C30: no dangling UI references.  In every reachable state selectedId,
\* editingSection, the sectionId of the open section context menu and the
\* sectionId of the seat-grid dialog are each null or the id of a section of
\* the current layout; deleting the selected section clears the selection.
C30_NoDanglingReferences ==
    /\ ~Dangling(selectedId)
    /\ ~Dangling(editingSection)
    /\ ~Dangling(contextMenu)
    /\ ~Dangling(seatGridDialog)

====
